---- MODULE Spec2Model ----
(***************************************************************************)
(* Session manager and authenticated request gateway of the capstone       *)
(* mobile client (src/contexts/AuthContext.tsx), with the callers that     *)
(* drive it.  JavaScript runs one continuation at a time, so one action is *)
(* the completion of one awaited operation (a storage read/write or a      *)
(* network response) together with the synchronous code that follows it up *)
(* to the next await.                                                      *)
(***************************************************************************)
EXTENDS Bags, Integers, Sequences, FiniteSets, TLC

\* ---- bounds ------------------------------------------------------------
MaxInFlight == 2
NumTokens == 2
NumUsers == 2

\* ---- values ------------------------------------------------------------
\* JavaScript null, as returned by AsyncStorage.getItem for an absent key
Null == "null"
\* user state is a user id, NoUser stands for `null`
NoUser == 0

Tokens == {"tok" \o ToString(k) : k \in 1..NumTokens}
Users == 1..NumUsers

\* the user object the backend sends for user k
UserRecord(k) == [id |-> k, role |-> IF k = 1 THEN "student" ELSE "adviser"]

\* JSON.stringify(data.user)
JSONStringify(r) ==
  "{\"id\":" \o ToString(r.id) \o ",\"role\":\"" \o r.role \o "\"}"

\* HTTP statuses the backend answers with
Statuses == {200, 401, 500}
LoginStatuses == {200, 401, 422}

\* Response.ok
IsOk(status) == status >= 200 /\ status <= 299

SessionExpired == "Session expired. Please login again."
NetworkError == "Network request failed"
\* Response.statusText
StatusText(status) ==
  CASE status = 200 -> "OK"
    [] status = 401 -> "Unauthorized"
    [] status = 422 -> "Unprocessable Content"
    [] status = 500 -> "Internal Server Error"
    [] OTHER -> ""
\* `API Error: ${response.status} ${response.statusText}`
ApiError(status) == "API Error: " \o ToString(status) \o " " \o StatusText(status)
JsonError == "JSON Parse error"
LoginFailed == "Login failed"

VARIABLES
  authToken,        \* AsyncStorage key "authToken"
  userData,         \* AsyncStorage key "userData"
  isAuthenticated,  \* useState<boolean | null>: "null", "true", "false"
  user,             \* useState<any | null>
  calls,            \* the asynchronous calls in flight: a bag of call records
  settled,          \* the call whose promise settled in the last step, if any
  overlap,          \* history: some logout has run while a login was in flight
  route,            \* useSegments()[0]: the route the Stack shows
  effectDue,        \* RootLayoutNav's effect is scheduled (a dependency changed)
  profile,          \* the record the backend serves for the signed-in account
  tabs,             \* the tabs TabLayout renders with an href
  form,             \* the open form and the values typed into it
  alert,            \* the text of the Alert.alert a submission raised ("": none)
  items,            \* a list screen's fetched collection (useState array)
  sortKey,          \* a list screen's sort key
  sortDirection,    \* a list screen's sort direction: "asc" or "desc"
  view,             \* the useState values of the screen that is mounted
  reqs              \* the requests that screen has issued, with their answers

sessionVars == <<authToken, userData, isAuthenticated, user, calls, settled, overlap>>
shellVars == <<route, effectDue, profile, tabs>>
formVars == <<form, alert>>
listVars == <<items, sortKey, sortDirection>>
viewVars == <<view, reqs>>
screenVars == <<shellVars, formVars, listVars, viewVars>>

vars == <<sessionVars, screenVars>>

NoForm == [name |-> "none"]
\* no data screen is mounted
NoView == [screen |-> "none"]

Ops == {"checkAuthStatus", "login", "logout", "fetchUser", "gateway", "createTask"}

LogoutPcs == {"lo_get", "lo_fetch", "lo_hung", "lo_rm1", "lo_rm2", "lo_crm1", "lo_crm2"}

\* error bodies of a failed gateway request: whether response.json() parses
\* it, and its `message` field (Null: none)
NoBody == [parses |-> FALSE, message |-> Null]
ErrorBodies ==
  {NoBody, [parses |-> TRUE, message |-> Null], [parses |-> TRUE, message |-> "Quota exceeded"]}

\* no call
Idle ==
  [op |-> "none", pc |-> "done", result |-> "none", error |-> "",
   status |-> 0, hdr |-> Null, token |-> Null, dtoken |-> Null, duser |-> NoUser,
   okBranch |-> "none", raced |-> FALSE, body |-> NoBody, errs |-> <<>>]

NewCall(op, pc) == [Idle EXCEPT !.op = op, !.pc = pc, !.result = "pending"]

Pending(c) == c.result = "pending"
InLogout(c) == c.pc \in LogoutPcs
InLogin(c) == c.op = "login"

InFlight == BagToSet(calls)

\* history bookkeeping: the calls are marked once a logout and a login coexist
MarkRaces(B) ==
  LET S == BagToSet(B)
      race == (\E c \in S : InLogout(c)) /\ (\E c \in S : InLogin(c))
      Mark(c) == IF race /\ (InLogout(c) \/ InLogin(c)) THEN [c EXCEPT !.raced = TRUE] ELSE c
  IN [d \in {Mark(c) : c \in S} |->
        CopiesIn(d, B) + (IF d.raced /\ Mark([d EXCEPT !.raced = FALSE]) = d
                          THEN CopiesIn([d EXCEPT !.raced = FALSE], B) ELSE 0)]

\* every action ends by replacing the record c of one call by d: a call that
\* is still pending stays in flight, a settled one is handed to its caller
Install(c, d) ==
  LET rest == calls (-) SetToBag({c})
      next == MarkRaces(IF Pending(d) THEN rest (+) SetToBag({d}) ELSE rest)
  IN /\ calls' = next
     /\ settled' = (IF Pending(d) THEN Idle ELSE d)
     /\ overlap' = (overlap \/ \E x \in BagToSet(next) : x.raced)
     /\ UNCHANGED screenVars

\* a caller starts a call
Start(d) ==
  /\ BagCardinality(calls) < MaxInFlight
  /\ LET next == MarkRaces(calls (+) SetToBag({d}))
     IN /\ calls' = next
        /\ overlap' = (overlap \/ \E x \in BagToSet(next) : x.raced)
  /\ settled' = Idle
  /\ UNCHANGED screenVars

Resolve(c) == [c EXCEPT !.pc = "done", !.result = "resolved", !.hdr = Null, !.token = Null]
Reject(c, e) ==
  [c EXCEPT !.pc = "done", !.result = "rejected", !.error = e, !.hdr = Null, !.token = Null]

----
\* ---- pieces of the code the actions below are built from ----------------

\* setIsAuthenticated(!!token) in checkAuthStatus
AuthOfTokenAlways(token) == "true"
AuthOfToken(token) == IF token # Null THEN "true" ELSE "false"

\* `if (response.status === 401)` in authenticatedFetch
ForcesLogoutOnAnyError(status) == ~IsOk(status)
ForcesLogout(status) == status = 401

\* the Authorization header getAuthHeaders builds from the token it read
AuthHeaderNoScheme(token) == token
AuthHeader(token) == "Bearer " \o token

\* the message authenticatedFetch throws for a non-2xx answer other than 401:
\* the parsed body is logged only
GatewayError(status, body) == ApiError(status)

\* setUser(userData) in fetchUser: the session's user afterwards
UserAfterFetchKept(cur, fetched) == cur
UserAfterFetch(cur, fetched) == fetched

\* `if (!response.ok)` in authenticatedFetch
ThrowsOnStatusNever(status) == FALSE
ThrowsOnStatus(status) == ~IsOk(status)

\* AsyncStorage.removeItem("authToken"): the value of the key afterwards
RemoveItemWrongKey(cur) == cur
RemoveItem(cur) == Null

\* the value login writes under "userData"
StoredUserUnserialized(k) == "[object Object]"
StoredUser(k) == JSONStringify(UserRecord(k))

\* bodies of a rejected login: the values of the `errors` map in key order
\* (no map: the empty sequence), and the `message` field (Null: none)
ErrorMaps == {<<>>, <<<<"invalid">>>>, <<<<"invalid">>, <<"too short">>>>}
Messages == {Null, "Invalid credentials"}

\* Array.prototype.flat
RECURSIVE Flat(_)
Flat(lists) == IF lists = <<>> THEN <<>> ELSE Head(lists) \o Flat(Tail(lists))

\* Array.prototype.join
RECURSIVE Join(_, _)
Join(strs, sep) ==
  IF strs = <<>> THEN ""
  ELSE IF Len(strs) = 1 THEN strs[1]
  ELSE strs[1] \o sep \o Join(Tail(strs), sep)

\* the error message login throws for a non-2xx answer
LoginErrorFirstField(status, errors, message) ==
  IF status = 422 THEN (IF errors = <<>> THEN "" ELSE Join(Head(errors), ", "))
  ELSE IF message # Null THEN message ELSE LoginFailed
LoginError(status, errors, message) ==
  IF status = 422 THEN Join(Flat(errors), ", ")
  ELSE IF message # Null THEN message ELSE LoginFailed

\* how a caller of authenticatedFetch ends when the fetch of the user or the
\* gateway call fails with e.  gateway: the screen's call rejects; fetchUser:
\* its catch logs and rethrows; checkAuthStatus: its catch logs, the call
\* resolves
Failed(c, e) ==
  IF c.op = "checkAuthStatus"
  THEN [Resolve(c) EXCEPT !.error = e]
  ELSE Reject(c, e)

\* checkAuthStatus's catch block runs setIsAuthenticated(false)
AuthAfterFailureKept(c, cur) == cur
AuthAfterFailure(c, cur) ==
  IF c.op = "checkAuthStatus" THEN "false" ELSE cur

\* logout() returned normally: a direct caller sees it resolve, while
\* authenticatedFetch goes on to throw the session-expired error
LogoutReturned(c) ==
  IF c.op = "logout" THEN Resolve(c) ELSE Failed(c, SessionExpired)

\* logout() rethrew e from its catch block: `await logout()` throws e too
LogoutThrew(c, e) ==
  IF c.op = "logout" THEN Reject(c, e) ELSE Failed(c, e)

----
\* ---- construction --------------------------------------------------------

\* the screens before anything is mounted: AuthProvider renders null until
\* the startup check has set isAuthenticated
ShellIdle == route = "(tabs)" /\ effectDue = FALSE /\ tabs = {}
FormsIdle == form = NoForm /\ alert = ""
ListIdle == items = <<>> /\ sortKey = "title" /\ sortDirection = "desc"
ViewIdle == view = NoView /\ reqs = {}
ScreensIdle == ShellIdle /\ profile = NoUser /\ FormsIdle /\ ListIdle /\ ViewIdle

\* storage as an earlier run of the app can have left it; the provider's
\* mount effect has issued checkAuthStatus
Init ==
  /\ authToken \in Tokens \cup {Null}
  /\ userData \in {StoredUser(k) : k \in Users} \cup {Null}
  /\ isAuthenticated = "null"
  /\ user = NoUser
  /\ calls = SetToBag({NewCall("checkAuthStatus", "ca_get")})
  /\ settled = Idle
  /\ overlap = FALSE
  /\ ScreensIdle

\* ---- checkAuthStatus -----------------------------------------------------

\* getItem("authToken") completes; setIsAuthenticated(!!token); with a token
\* fetchUser -> authenticatedFetch -> getAuthHeaders issues its own getItem
CheckGetToken(c) ==
  /\ c.op = "checkAuthStatus" /\ c.pc = "ca_get"
  /\ isAuthenticated' = AuthOfToken(authToken)
  /\ Install(c, IF authToken # Null
                THEN [c EXCEPT !.pc = "af_headers"]
                ELSE Resolve(c))
  /\ UNCHANGED <<authToken, userData, user>>

\* ---- callers --------------------------------------------------------------

\* the children render only once isAuthenticated is not null, and the
\* navigation shell shows the login screen to an unauthenticated session and
\* the other screens to an authenticated one
InvokeLogin ==
  /\ isAuthenticated = "false"
  /\ \A c \in InFlight : ~InLogin(c)
  /\ Start(NewCall("login", "li_fetch"))
  /\ UNCHANGED <<authToken, userData, isAuthenticated, user>>

InvokeLogout ==
  /\ isAuthenticated = "true"
  /\ Start(NewCall("logout", "lo_get"))
  /\ UNCHANGED <<authToken, userData, isAuthenticated, user>>

InvokeFetchUser ==
  /\ isAuthenticated = "true"
  /\ Start(NewCall("fetchUser", "af_headers"))
  /\ UNCHANGED <<authToken, userData, isAuthenticated, user>>

InvokeGateway ==
  /\ isAuthenticated = "true"
  /\ Start(NewCall("gateway", "af_headers"))
  /\ UNCHANGED <<authToken, userData, isAuthenticated, user>>

\* ---- authenticatedFetch ----------------------------------------------------

\* getAuthHeaders' getItem completes; fetch(BASE_URL + url) is issued
AFGetHeaders(c) ==
  /\ c.pc = "af_headers"
  /\ Install(c, [c EXCEPT !.hdr = AuthHeader(authToken), !.pc = "af_fetch"])
  /\ UNCHANGED <<authToken, userData, isAuthenticated, user>>

\* the response arrives
AFResponse(c) ==
  /\ c.pc = "af_fetch"
  /\ \E status \in Statuses :
       LET d == [c EXCEPT !.status = status, !.hdr = Null] IN
       Install(c,
         IF ForcesLogout(status) THEN [d EXCEPT !.pc = "lo_get"]
         ELSE IF ThrowsOnStatus(status) THEN [d EXCEPT !.pc = "af_errjson"]
         ELSE IF d.op = "gateway"
              THEN [Resolve(d) EXCEPT !.okBranch = IF IsOk(status) THEN "ok" ELSE "notOk"]
              ELSE [d EXCEPT !.pc = "fu_json"])
  /\ UNCHANGED <<authToken, userData, isAuthenticated, user>>

\* fetch throws: the exception leaves authenticatedFetch unchanged
AFNetworkError(c) ==
  /\ c.pc = "af_fetch"
  /\ Install(c, Failed(c, NetworkError))
  /\ isAuthenticated' = AuthAfterFailure(c, isAuthenticated)
  /\ UNCHANGED <<authToken, userData, user>>

\* response.json().catch(() => null) settles; the API error is thrown
AFErrorBody(c) ==
  /\ c.pc = "af_errjson"
  /\ \E body \in ErrorBodies :
       Install(c, Failed([c EXCEPT !.body = body], GatewayError(c.status, body)))
  /\ isAuthenticated' = AuthAfterFailure(c, isAuthenticated)
  /\ UNCHANGED <<authToken, userData, user>>

\* ---- fetchUser -------------------------------------------------------------

\* response.json() resolves; setUser(userData)
FetchUserJson(c) ==
  /\ c.pc = "fu_json"
  /\ \E u \in Users :
       /\ user' = UserAfterFetch(user, u)
       /\ Install(c, Resolve([c EXCEPT !.duser = u]))
  /\ UNCHANGED <<authToken, userData, isAuthenticated>>

\* response.json() rejects
FetchUserJsonFails(c) ==
  /\ c.pc = "fu_json"
  /\ Install(c, Failed(c, JsonError))
  /\ isAuthenticated' = AuthAfterFailure(c, isAuthenticated)
  /\ UNCHANGED <<authToken, userData, user>>

\* ---- logout (called directly, or by authenticatedFetch on a 401) ----------

\* getItem("authToken") completes
LogoutGetToken(c) ==
  /\ c.pc = "lo_get"
  /\ IF authToken = Null
     THEN /\ isAuthenticated' = "false"
          /\ Install(c, LogoutReturned(c))
     ELSE /\ isAuthenticated' = isAuthenticated
          /\ Install(c, [c EXCEPT !.token = authToken, !.pc = "lo_fetch"])
  /\ UNCHANGED <<authToken, userData, user>>

\* the logout endpoint answers; removeItem("authToken") is issued
LogoutResponse(c) ==
  /\ c.pc = "lo_fetch"
  /\ \E status \in {200, 500} :
       Install(c, [c EXCEPT !.token = Null, !.pc = "lo_rm1"])
  /\ UNCHANGED <<authToken, userData, isAuthenticated, user>>

\* the logout request throws; the catch block issues removeItem("authToken")
LogoutNetworkError(c) ==
  /\ c.pc = "lo_fetch"
  /\ Install(c, [c EXCEPT !.token = Null, !.pc = "lo_crm1"])
  /\ UNCHANGED <<authToken, userData, isAuthenticated, user>>

\* the logout request is never answered (no timeout is configured)
LogoutNoResponse(c) ==
  /\ c.pc = "lo_fetch"
  /\ Install(c, [c EXCEPT !.token = Null, !.pc = "lo_hung"])
  /\ UNCHANGED <<authToken, userData, isAuthenticated, user>>

\* removeItem("authToken") completes; removeItem("userData") is issued
LogoutRemoveToken(c) ==
  /\ c.pc \in {"lo_rm1", "lo_crm1"}
  /\ authToken' = RemoveItem(authToken)
  /\ Install(c, [c EXCEPT !.pc = IF c.pc = "lo_rm1" THEN "lo_rm2" ELSE "lo_crm2"])
  /\ UNCHANGED <<userData, isAuthenticated, user>>

\* setIsAuthenticated(false) once both removals are done
AuthAfterLogoutKept(cur) == cur

AuthAfterLogout(cur) == "false"

\* removeItem("userData") completes; setIsAuthenticated(false); logout
\* returns, or rethrows from its catch block
LogoutRemoveUser(c) ==
  /\ c.pc \in {"lo_rm2", "lo_crm2"}
  /\ userData' = RemoveItem(userData)
  /\ isAuthenticated' = AuthAfterLogout(isAuthenticated)
  /\ Install(c, IF c.pc = "lo_rm2"
                THEN LogoutReturned(c)
                ELSE LogoutThrew(c, NetworkError))
  /\ UNCHANGED <<authToken, user>>

\* ---- login -----------------------------------------------------------------

\* the login endpoint answers; response.json() is issued
LoginResponse(c) ==
  /\ c.pc = "li_fetch"
  /\ \E status \in LoginStatuses :
       Install(c, [c EXCEPT !.status = status, !.pc = "li_json"])
  /\ UNCHANGED <<authToken, userData, isAuthenticated, user>>

\* the login request throws
LoginNetworkError(c) ==
  /\ c.pc = "li_fetch"
  /\ Install(c, Reject(c, NetworkError))
  /\ UNCHANGED <<authToken, userData, isAuthenticated, user>>

\* if (!response.ok): both branches throw
LoginThrowsOnValidationOnly(status) == status = 422

LoginThrows(status) == ~IsOk(status)

\* the body is parsed: a non-2xx answer throws, otherwise
\* setItem("authToken", data.token) is issued
LoginJson(c) ==
  /\ c.pc = "li_json"
  /\ IF LoginThrows(c.status)
     THEN \E errors \in ErrorMaps, message \in Messages :
            Install(c, Reject([c EXCEPT !.errs = errors, !.body = [parses |-> TRUE, message |-> message]],
                              LoginError(c.status, errors, message)))
     ELSE \E t \in Tokens, u \in Users :
            Install(c, [c EXCEPT !.dtoken = t, !.duser = u, !.pc = "li_set1"])
  /\ UNCHANGED <<authToken, userData, isAuthenticated, user>>

\* setItem("authToken") completes; setItem("userData", ...) is issued
LoginSetToken(c) ==
  /\ c.pc = "li_set1"
  /\ authToken' = c.dtoken
  /\ Install(c, [c EXCEPT !.pc = "li_set2"])
  /\ UNCHANGED <<userData, isAuthenticated, user>>

\* setItem("userData") completes; setIsAuthenticated(true); login resolves
LoginSetUser(c) ==
  /\ c.pc = "li_set2"
  /\ userData' = StoredUser(c.duser)
  /\ isAuthenticated' = "true"
  /\ Install(c, Resolve(c))
  /\ UNCHANGED <<authToken, user>>

----
\* ---- specification ---------------------------------------------------------

\* a step of the call c
\* ---- createTask (app/(tabs)/tasks.tsx) --------------------------------------

\* the Tasks screen submits a valid form: createTask reads the token itself
InvokeCreateTask ==
  /\ isAuthenticated = "true"
  /\ Start(NewCall("createTask", "ct_token"))
  /\ UNCHANGED <<authToken, userData, isAuthenticated, user>>

\* the Authorization header of createTask's own fetch
TaskAuthHeader(token) == "Bearer " \o token

\* getItem("authToken") completes; fetch(baseUrl + "/api/tasks") is issued
\* with the screen's own base URL
CTGetToken(c) ==
  /\ c.pc = "ct_token"
  /\ Install(c, [c EXCEPT !.hdr = TaskAuthHeader(authToken), !.pc = "ct_fetch"])
  /\ UNCHANGED <<authToken, userData, isAuthenticated, user>>

\* the response arrives: the status is not looked at
CTResponse(c) ==
  /\ c.pc = "ct_fetch"
  /\ \E status \in Statuses :
       Install(c, [c EXCEPT !.status = status, !.hdr = Null, !.pc = "ct_json"])
  /\ UNCHANGED <<authToken, userData, isAuthenticated, user>>

\* fetch throws: the catch block alerts and createTask returns
CTNetworkError(c) ==
  /\ c.pc = "ct_fetch"
  /\ Install(c, [Resolve(c) EXCEPT !.okBranch = "notOk"])
  /\ UNCHANGED <<authToken, userData, isAuthenticated, user>>

\* response.json() completes (or throws into the catch block): an alert by
\* result.success, and createTask returns; the refresh it starts on success
\* is a gateway call of its own (InvokeGateway)
CTJson(c) ==
  /\ c.pc = "ct_json"
  /\ \E success \in (IF IsOk(c.status) THEN BOOLEAN ELSE {FALSE}) :
       Install(c, [Resolve(c) EXCEPT !.okBranch = IF success THEN "ok" ELSE "notOk"])
  /\ UNCHANGED <<authToken, userData, isAuthenticated, user>>

Step(c) ==
  \/ CTGetToken(c)
  \/ CTResponse(c)
  \/ CTNetworkError(c)
  \/ CTJson(c)
  \/ CheckGetToken(c)
  \/ AFGetHeaders(c)
  \/ AFResponse(c)
  \/ AFNetworkError(c)
  \/ AFErrorBody(c)
  \/ FetchUserJson(c)
  \/ FetchUserJsonFails(c)
  \/ LogoutGetToken(c)
  \/ LogoutResponse(c)
  \/ LogoutNetworkError(c)
  \/ LogoutNoResponse(c)
  \/ LogoutRemoveToken(c)
  \/ LogoutRemoveUser(c)
  \/ LoginResponse(c)
  \/ LoginNetworkError(c)
  \/ LoginJson(c)
  \/ LoginSetToken(c)
  \/ LoginSetUser(c)

Invoke ==
  \/ InvokeLogin
  \/ InvokeLogout
  \/ InvokeFetchUser
  \/ InvokeGateway
  \/ InvokeCreateTask

Next == Invoke \/ \E c \in InFlight : Step(c)

Spec == Init /\ [][Next]_vars

\* the event loop runs every continuation that is ready and delivers every
\* response the network gives: no kind of call waits for ever on a step it
\* can take
StepOf(op) == \E c \in InFlight : c.op = op /\ Step(c)

FairSpec == Spec /\ \A op \in Ops : WF_vars(StepOf(op))

----
\* ---- properties ------------------------------------------------------------

\* the call that settled in the last step went through authenticatedFetch and
\* its response had status 401
Settled401 ==
  /\ settled.op \in {"gateway", "fetchUser", "checkAuthStatus"}
  /\ settled.status = 401

\* C1 as stated: when a gateway call that received 401 rejects,
\* isAuthenticated is false and no authToken is stored
C1_Original ==
  Settled401 => (isAuthenticated = "false" /\ authToken = Null)

\* C1, amended: when a gateway call that received 401 rejects and no login
\* overlapped the logout it triggered, isAuthenticated is false and no
\* authToken is stored
C1_Amended ==
  (Settled401 /\ ~settled.raced) => (isAuthenticated = "false" /\ authToken = Null)

C1_Witness ==
  /\ settled.op = "gateway" /\ settled.status = 401 /\ settled.result = "rejected"
  /\ ~settled.raced
  /\ isAuthenticated = "false" /\ authToken = Null

\* C2: every gateway call that received 401 rejects with the session-expired
\* error, whatever the logout request did
C2_Claim ==
  (settled.op \in {"gateway", "fetchUser"} /\ settled.status = 401)
    => (settled.result = "rejected" /\ settled.error = SessionExpired)

\* C3: when logout has finished, neither authToken nor userData is stored
C3_Claim ==
  settled.op = "logout" => (authToken = Null /\ userData = Null)

\* C4 as stated: in every reachable state, isAuthenticated = true implies
\* that an authToken is stored
C4_Original ==
  isAuthenticated = "true" => authToken # Null

\* C4, amended: in every reachable state in which no logout is in progress
\* and no logout has run while a login was in flight, isAuthenticated = true
\* implies that an authToken is stored
C4_Amended ==
  (isAuthenticated = "true" /\ ~overlap /\ \A c \in InFlight : ~InLogout(c))
    => authToken # Null

C4_Witness ==
  /\ settled.op = "login" /\ settled.result = "resolved"
  /\ isAuthenticated = "true" /\ ~overlap /\ authToken # Null
  /\ \A c \in InFlight : ~InLogout(c)

\* C5: when a successful login has resolved, isAuthenticated is true and the
\* session's user is the user of the login response
C5_Claim ==
  (settled.op = "login" /\ settled.result = "resolved")
    => (isAuthenticated = "true" /\ user = settled.duser)

\* C6: when logout has completed, isAuthenticated is false and the session's
\* user is null
C6_Claim ==
  settled.op = "logout" => (isAuthenticated = "false" /\ user = NoUser)

\* the startup probe found a token and its fetch of the user record failed
CheckFailed(c) == c.op = "checkAuthStatus" /\ c.error # ""

\* C7 as stated: when the startup fetch of the user record fails, the session
\* still reports authenticated, with user = null
C7_Original ==
  CheckFailed(settled) => (isAuthenticated = "true" /\ user = NoUser)

\* C7, amended: when the startup fetch of the user record fails,
\* checkAuthStatus sets isAuthenticated to false in the step in which it
\* ends, and leaves the user record as it was
C7_Amended ==
  [][CheckFailed(settled') => (isAuthenticated' = "false" /\ user' = user)]_vars

C7_Witness ==
  /\ CheckFailed(settled) /\ settled.error = NetworkError
  /\ isAuthenticated = "false" /\ user = NoUser /\ authToken # Null

\* C8: when a login that no logout overlapped has resolved, authToken holds
\* the token of the login response and userData the JSON text of its user
C8_Theorem ==
  (settled.op = "login" /\ settled.result = "resolved" /\ ~settled.raced)
    => /\ authToken = settled.dtoken
       /\ userData = JSONStringify(UserRecord(settled.duser))

C8_Witness ==
  /\ settled.op = "login" /\ settled.result = "resolved" /\ ~settled.raced
  /\ authToken = settled.dtoken /\ authToken \in Tokens
  /\ userData = "{\"id\":2,\"role\":\"adviser\"}" /\ settled.duser = 2

\* C9: once logout has been invoked with a token stored, the client
\* eventually has isAuthenticated false and neither authToken nor userData
\* stored
C9_Claim ==
  (\E c \in InFlight : c.op = "logout" /\ c.pc = "lo_fetch")
    ~> (isAuthenticated = "false" /\ authToken = Null /\ userData = Null)

\* C10: a gateway call resolves exactly when the status of its response is in
\* 200..299, and no screen that receives a response takes its `!response.ok`
\* branch
C10_Theorem ==
  settled.op = "gateway"
    => /\ settled.result = "resolved" <=> (settled.status >= 200 /\ settled.status <= 299)
       /\ settled.result \in {"resolved", "rejected"}
       /\ settled.okBranch # "notOk"

C10_Witness ==
  /\ settled.op = "gateway" /\ settled.result = "resolved"
  /\ settled.status = 200 /\ settled.okBranch = "ok"

\* str contains sub
Contains(str, sub) ==
  \E i \in 1..(Len(str) - Len(sub) + 1) : SubSeq(str, i, i + Len(sub) - 1) = sub

\* the call that settled in the last step went through authenticatedFetch
\* and failed on a status outside 200..299 other than 401
SettledHttpError(c) ==
  /\ c.op \in {"gateway", "fetchUser", "checkAuthStatus"}
  /\ c.error # ""
  /\ c.status # 0 /\ c.status # 401 /\ ~(c.status >= 200 /\ c.status <= 299)

\* C11: a gateway call that failed on a status outside 200..299 other than
\* 401 fails with the message of the JSON error body when the body parses
\* and has one, and otherwise with a message that carries the status code
C11_Claim ==
  SettledHttpError(settled)
    => IF settled.body.parses /\ settled.body.message # Null
       THEN settled.error = settled.body.message
       ELSE Contains(settled.error, ToString(settled.status))

\* the call that settled in this step went through authenticatedFetch and
\* failed for a reason other than a 401
FailsWithout401(c) ==
  /\ c.op \in {"gateway", "fetchUser"}
  /\ c.result = "rejected"
  /\ c.status # 401

C14_Theorem ==
  [][\A d \in BagToSet(calls') :
       (d.pc = "af_fetch" /\ CopiesIn(d, calls') > CopiesIn(d, calls))
         => d.hdr = "Bearer " \o authToken]_vars

\* two requests in flight carry different tokens: the second was sent after
\* the stored token was replaced
C14_Witness ==
  \E c, d \in InFlight :
    /\ c.pc = "af_fetch" /\ d.pc = "af_fetch"
    /\ c.hdr = "Bearer tok1" /\ d.hdr = "Bearer tok2"
    /\ authToken = "tok2"

\* the call that settled in this step fetched the user record successfully
FetchedUser(c) ==
  \/ c.op = "fetchUser" /\ c.result = "resolved"
  \/ c.op = "checkAuthStatus" /\ c.error = "" /\ c.duser # NoUser

\* C15: a successful fetchUser sets the session's user to the record the
\* current-user endpoint returned and leaves isAuthenticated, the stored
\* authToken and the stored userData unchanged
C15_Theorem ==
  [][FetchedUser(settled')
       => /\ user' = settled'.duser
          /\ UNCHANGED <<isAuthenticated, authToken, userData>>]_vars

\* the session's user was refreshed to a record other than the stored snapshot
C15_Witness ==
  /\ settled.op = "fetchUser" /\ settled.result = "resolved"
  /\ user = settled.duser /\ user = 1
  /\ userData = "{\"id\":2,\"role\":\"adviser\"}"

\* ==== navigation shell: app/_layout.tsx and app/(tabs)/_layout.tsx ========

MaxRoles == 2

Routes == {"(tabs)", "login", "profile", "group/[id]"}

\* String.prototype.toLowerCase, character by character
LowerChar(ch) ==
  CASE ch = "A" -> "a" [] ch = "B" -> "b" [] ch = "C" -> "c" [] ch = "D" -> "d"
    [] ch = "E" -> "e" [] ch = "F" -> "f" [] ch = "G" -> "g" [] ch = "H" -> "h"
    [] ch = "I" -> "i" [] ch = "J" -> "j" [] ch = "K" -> "k" [] ch = "L" -> "l"
    [] ch = "M" -> "m" [] ch = "N" -> "n" [] ch = "O" -> "o" [] ch = "P" -> "p"
    [] ch = "Q" -> "q" [] ch = "R" -> "r" [] ch = "S" -> "s" [] ch = "T" -> "t"
    [] ch = "U" -> "u" [] ch = "V" -> "v" [] ch = "W" -> "w" [] ch = "X" -> "x"
    [] ch = "Y" -> "y" [] ch = "Z" -> "z" [] OTHER -> ch

RECURSIVE toLowerCase(_)
toLowerCase(str) ==
  IF str = "" THEN ""
  ELSE LowerChar(SubSeq(str, 1, 1)) \o toLowerCase(SubSeq(str, 2, Len(str)))

\* the callback of both some() calls and the test on both scalar fields
IsStudentRoleExact(role) == role = "student" \/ role = "students"

IsStudentRole(role) ==
  toLowerCase(role) = "student" \/ toLowerCase(role) = "students"

\* the role values a backend record may carry; an absent array behaves as
\* the empty one and an absent string as the empty one (both falsy or empty)
RoleNames == {"Student", "STUDENTS", "adviser"}
ScalarRoles == {"", "students", "sTuDeNt", "Student Adviser"}
RoleArrays == UNION {[1..n -> RoleNames] : n \in 0..MaxRoles}
Profiles ==
  [roles : RoleArrays, user_roles : RoleArrays,
   primary_role : ScalarRoles, role : ScalarRoles]

\* the parenthesised disjunction of isStudent, on a non-null record
HasStudentRole(u) ==
  \/ \E i \in 1..Len(u.roles) : IsStudentRole(u.roles[i])
  \/ \E i \in 1..Len(u.user_roles) : IsStudentRole(u.user_roles[i])
  \/ (u.primary_role # "" /\ IsStudentRole(u.primary_role))
  \/ (u.role # "" /\ IsStudentRole(u.role))

\* const isStudent = user && (...): user is null or the served record
isStudent(u) == u # NoUser /\ HasStudentRole(profile)

\* the Tabs.Screen entries whose href is not null
VisibleTabs(student) ==
  {"index", "repository", "activities"}
    \cup (IF student THEN {} ELSE {"groups", "projects"})
    \cup (IF student THEN {"tasks", "my_group", "our_project"} ELSE {})

\* what is on screen: nothing before the startup check, no tab bar on login
Render(auth, seg, student) ==
  IF auth = "null" \/ seg = "login" THEN {} ELSE VisibleTabs(student)

\* the body of RootLayoutNav's effect: the route after it has run
RedirectTargetNoGate(auth, seg) == seg

RedirectTarget(auth, seg) ==
  IF auth # "true" /\ seg # "login" THEN "login"
  ELSE IF auth = "true" /\ seg = "login" THEN "(tabs)"
  ELSE seg

\* setIsAuthenticated(b) in checkAuthStatus, login or logout; the provider
\* re-renders and the effect, which depends on isAuthenticated, is scheduled
SetIsAuthenticated(b) ==
  /\ isAuthenticated # b
  /\ isAuthenticated' = b
  /\ effectDue' = TRUE
  /\ tabs' = Render(b, route, isStudent(user))
  /\ UNCHANGED <<authToken, userData, user, calls, settled, overlap>>
  /\ UNCHANGED <<route, profile, formVars, listVars, viewVars>>

\* setUser(userData) in fetchUser: the tab layout re-renders
SetUser ==
  /\ isAuthenticated = "true"
  /\ user = NoUser
  /\ user' = 1
  /\ tabs' = Render(isAuthenticated, route, isStudent(user'))
  /\ UNCHANGED <<authToken, userData, isAuthenticated, calls, settled, overlap>>
  /\ UNCHANGED <<route, effectDue, profile, formVars, listVars, viewVars>>

\* the effect runs; a replace changes segments, which schedules it again
RedirectEffect ==
  /\ effectDue
  /\ isAuthenticated # "null"
  /\ route' = RedirectTarget(isAuthenticated, route)
  /\ effectDue' = (route' # route)
  /\ tabs' = Render(isAuthenticated, route', isStudent(user))
  /\ UNCHANGED <<sessionVars, profile, formVars, listVars, viewVars>>

\* router.push, a back gesture or a deep link shows another route
Navigate(seg) ==
  /\ isAuthenticated # "null"
  /\ seg # route
  /\ route' = seg
  /\ effectDue' = TRUE
  /\ tabs' = Render(isAuthenticated, seg, isStudent(user))
  /\ UNCHANGED <<sessionVars, profile, formVars, listVars, viewVars>>

SessionIdle ==
  /\ authToken = Null /\ userData = Null /\ isAuthenticated = "null"
  /\ user = NoUser /\ calls = EmptyBag /\ settled = Idle /\ overlap = FALSE

ShellInit ==
  /\ SessionIdle
  /\ ShellIdle /\ profile \in Profiles
  /\ FormsIdle /\ ListIdle /\ ViewIdle

ShellNext ==
  \/ \E b \in {"true", "false"} : SetIsAuthenticated(b)
  \/ SetUser
  \/ RedirectEffect
  \/ \E seg \in Routes : Navigate(seg)

ShellSpec == ShellInit /\ [][ShellNext]_vars

\* the shell for the accounts whose record carries the scalar fields only;
\* React runs every scheduled effect
NavInit == ShellInit /\ profile.roles = <<>> /\ profile.user_roles = <<>>

NavSpec == NavInit /\ [][ShellNext]_vars /\ WF_vars(RedirectEffect)

\* C16: once the redirect effect has run, an unauthenticated session is on
\* the login route and an authenticated one is off it; and an unauthenticated
\* session always leads to the login route (or is signed in again first)
C16_Theorem ==
  /\ [](~effectDue /\ isAuthenticated = "false" => route = "login")
  /\ [](~effectDue /\ isAuthenticated = "true" => route # "login")
  /\ (isAuthenticated = "false" ~> (route = "login" \/ isAuthenticated = "true"))

\* a signed-in session was logged out and the effect has replaced the route
C16_Witness ==
  isAuthenticated = "false" /\ user # NoUser /\ route = "login" /\ ~effectDue

\* C17: the tab layout treats the user as a student iff the record is
\* non-null and one of roles[], user_roles[], primary_role, role is
\* "student" or "students" in any letter case; Groups and Projects are
\* shown iff the user is no student, Tasks, My Group and Our Project iff
\* the user is a student
StudentSpellings == {"student", "students", "Student", "STUDENTS", "sTuDeNt"}

NamesStudent(u) ==
  \/ \E i \in DOMAIN u.roles : u.roles[i] \in StudentSpellings
  \/ \E i \in DOMAIN u.user_roles : u.user_roles[i] \in StudentSpellings
  \/ u.primary_role \in StudentSpellings
  \/ u.role \in StudentSpellings

C17_Theorem ==
  (isAuthenticated # "null" /\ route # "login") =>
    LET student == user # NoUser /\ NamesStudent(profile)
    IN /\ \A t \in {"groups", "projects"} : t \in tabs <=> ~student
       /\ \A t \in {"tasks", "my_group", "our_project"} : t \in tabs <=> student

\* a record that names the role only in upper case, as the second element
\* of user_roles, is shown the student tabs
C17_Witness ==
  /\ user # NoUser /\ route = "(tabs)"
  /\ profile.roles = <<>> /\ profile.primary_role = "" /\ profile.role = ""
  /\ Len(profile.user_roles) = 2
  /\ profile.user_roles[1] = "adviser" /\ profile.user_roles[2] = "STUDENTS"
  /\ "tasks" \in tabs /\ "groups" \notin tabs

\* ==== the gateway as the only way to the backend ===========================

\* the calls a screen makes to the backend with the bearer token
ScreenOps == {"gateway", "fetchUser", "createTask"}

\* C18: every authenticated backend call of a screen goes through
\* authenticatedFetch: a screen's request that carries the bearer token is
\* the gateway's own fetch, and a 401 on a screen's call forces logout (no
\* login overlapping)
C18_Claim ==
  /\ \A c \in InFlight :
       (c.op \in ScreenOps /\ c.hdr # Null) => c.pc = "af_fetch"
  /\ (settled.op \in ScreenOps /\ settled.status = 401 /\ ~overlap)
       => (isAuthenticated = "false" /\ authToken = Null)

\* ==== the forms and their validation =======================================

MaxDate == 2

\* what can be typed into a text field, and the dates a picker can give
Texts == {"", " ", "a", " a "}
Dates == 1..MaxDate

\* String.prototype.trim
RECURSIVE TrimStart(_)
TrimStart(str) ==
  IF str # "" /\ SubSeq(str, 1, 1) = " " THEN TrimStart(SubSeq(str, 2, Len(str)))
  ELSE str

RECURSIVE TrimEnd(_)
TrimEnd(str) ==
  IF str # "" /\ SubSeq(str, Len(str), Len(str)) = " "
  THEN TrimEnd(SubSeq(str, 1, Len(str) - 1))
  ELSE str

trim(str) == TrimEnd(TrimStart(str))

\* !value and !value.trim() on a string
Empty(str) == str = ""

BlankUntrimmed(str) == Empty(str)

Blank(str) == Empty(trim(str))

\* the forms, by the handler that submits them, with every filling
LoginForms == [name : {"handleLogin"}, email : Texts, password : Texts]
ActivityForms ==
  [name : {"createActivity"}, title : Texts, description : Texts,
   category : Texts, start_date : Dates, end_date : Dates]
TaskForms == [name : {"createTask", "updateTask"}, title : Texts]
GroupNameForms ==
  [name : {"handleCreateGroup"}, groupName : Texts, group : {TRUE}]
    \cup [name : {"handleUpdateGroup"}, groupName : Texts, group : BOOLEAN]
GroupCodeForms == [name : {"handleJoinGroup"}, groupCode : Texts]
ProfileForms == [name : {"handleUpdateProfile"}, fname : Texts, email : Texts]
SignedInForms ==
  ActivityForms \cup TaskForms \cup GroupNameForms \cup GroupCodeForms
    \cup ProfileForms

\* the login screen is all a signed-out session shows
FormsOn(auth) == IF auth = "true" THEN SignedInForms ELSE LoginForms

\* each handler's checks before its try block: the alert it raises, "" if
\* the form passes
LoginAlert(f) ==
  IF Empty(f.email) \/ Empty(f.password) THEN "Please fill in all fields" ELSE ""

ActivityAlert(f) ==
  IF Blank(f.title) THEN "Activity title is required"
  ELSE IF Blank(f.description) THEN "Activity description is required"
  ELSE IF Blank(f.category) THEN "Activity category is required"
  ELSE IF f.start_date >= f.end_date THEN "End date must be after start date"
  ELSE ""

TaskAlert(f) == IF Blank(f.title) THEN "Task title is required" ELSE ""

GroupNameAlert(f) ==
  IF ~f.group \/ Blank(f.groupName) THEN "Please enter a group name" ELSE ""

GroupCodeAlert(f) ==
  IF Blank(f.groupCode) THEN "Please enter a group code" ELSE ""

ProfileAlert(f) ==
  IF Blank(f.fname) \/ Blank(f.email) THEN "Please fill in all fields" ELSE ""

ValidationAlert(f) ==
  CASE f.name = "handleLogin" -> LoginAlert(f)
    [] f.name = "createActivity" -> ActivityAlert(f)
    [] f.name \in {"createTask", "updateTask"} -> TaskAlert(f)
    [] f.name \in {"handleCreateGroup", "handleUpdateGroup"} -> GroupNameAlert(f)
    [] f.name = "handleJoinGroup" -> GroupCodeAlert(f)
    [] f.name = "handleUpdateProfile" -> ProfileAlert(f)

\* the call a handler makes once its form has passed: login(), the task
\* handlers' own fetch, authenticatedFetch for the others
CallOf(f) ==
  CASE f.name = "handleLogin" -> NewCall("login", "li_fetch")
    [] f.name \in {"createTask", "updateTask"} -> NewCall("createTask", "ct_token")
    [] OTHER -> NewCall("gateway", "af_headers")

\* the user (having dismissed any alert) types into a form or opens
\* another one
FillForm(f) ==
  /\ f \in FormsOn(isAuthenticated)
  /\ f # form
  /\ form' = f
  /\ alert' = ""
  /\ UNCHANGED <<sessionVars, shellVars, listVars, viewVars>>

\* the user presses the submit button; the login button is disabled while
\* a login is running
Submit ==
  /\ form # NoForm
  /\ IF ValidationAlert(form) # ""
     THEN /\ alert' = ValidationAlert(form)
          /\ UNCHANGED calls
     ELSE /\ BagCardinality(calls) < MaxInFlight
          /\ form.name = "handleLogin" => \A c \in InFlight : ~InLogin(c)
          /\ calls' = calls (+) SetToBag({CallOf(form)})
          /\ UNCHANGED alert
  /\ UNCHANGED <<authToken, userData, isAuthenticated, user, settled, overlap>>
  /\ UNCHANGED <<shellVars, listVars, viewVars, form>>

\* a session at rest, signed in or signed out, with the route the shell
\* gives it
FormInit ==
  /\ isAuthenticated \in {"true", "false"}
  /\ authToken \in (IF isAuthenticated = "true" THEN Tokens ELSE {Null})
  /\ userData = Null /\ user = NoUser
  /\ calls = EmptyBag /\ settled = Idle /\ overlap = FALSE
  /\ route = (IF isAuthenticated = "true" THEN "(tabs)" ELSE "login")
  /\ effectDue = FALSE /\ profile = NoUser /\ tabs = {}
  /\ FormsIdle /\ ListIdle /\ ViewIdle

FormNext ==
  \/ \E f \in SignedInForms \cup LoginForms : FillForm(f)
  \/ Submit

FormSpec == FormInit /\ [][FormNext]_vars

\* C19: a submission that fails client-side validation issues no request and
\* leaves session and list state unchanged: login with an empty email or
\* password, create-activity with a blank title, description or category
\* or start_date >= end_date, create/update task with a blank title,
\* create/join/update group with a blank name or code, profile update with
\* a blank name or email
OnlySpaces(str) == \A i \in 1..Len(str) : SubSeq(str, i, i) = " "

FailsValidation(f) ==
  \/ f.name = "handleLogin" /\ (f.email = "" \/ f.password = "")
  \/ /\ f.name = "createActivity"
     /\ \/ OnlySpaces(f.title) \/ OnlySpaces(f.description)
        \/ OnlySpaces(f.category) \/ f.start_date >= f.end_date
  \/ f.name \in {"createTask", "updateTask"} /\ OnlySpaces(f.title)
  \/ f.name \in {"handleCreateGroup", "handleUpdateGroup"} /\ OnlySpaces(f.groupName)
  \/ f.name = "handleJoinGroup" /\ OnlySpaces(f.groupCode)
  \/ f.name = "handleUpdateProfile" /\ (OnlySpaces(f.fname) \/ OnlySpaces(f.email))

C19_Theorem ==
  [][(FailsValidation(form) /\ form' = form)
       => /\ calls' = calls
          /\ UNCHANGED <<authToken, userData, isAuthenticated, user, listVars>>]_vars

\* after one activity has been sent, a second one whose title is only a
\* space was submitted and stopped by the alert
C19_Witness ==
  /\ form.name = "createActivity" /\ form.title = " "
  /\ alert = "Activity title is required"
  /\ BagCardinality(calls) = 1

\* ==== the list screens: app/(tabs)/repository.tsx, projects.tsx ============

MaxItems == 3

\* the values of the two columns a collection is sorted by here
Titles == {"a", "ab", "b"}
Grades == {"85", "90"}
SortKeys == {"title", "final_grade"}

\* a response of the collection endpoint: items in the backend's order,
\* each with its own id
Collections ==
  UNION {{[i \in 1..n |-> [id |-> i, title |-> t[i], final_grade |-> g[i]]] :
            t \in [1..n -> Titles], g \in [1..n -> Grades]} : n \in 0..MaxItems}

\* String.prototype.localeCompare on digits and lower-case letters: by the
\* first differing character, a proper prefix first
Rank(ch) ==
  CASE ch = "0" -> 0 [] ch = "5" -> 5 [] ch = "8" -> 8 [] ch = "9" -> 9
    [] ch = "a" -> 10 [] ch = "b" -> 11

RECURSIVE localeCompare(_, _)
localeCompare(x, y) ==
  IF x = "" /\ y = "" THEN 0
  ELSE IF x = "" THEN -1
  ELSE IF y = "" THEN 1
  ELSE IF Rank(SubSeq(x, 1, 1)) < Rank(SubSeq(y, 1, 1)) THEN -1
  ELSE IF Rank(SubSeq(x, 1, 1)) > Rank(SubSeq(y, 1, 1)) THEN 1
  ELSE localeCompare(SubSeq(x, 2, Len(x)), SubSeq(y, 2, Len(y)))

\* the comparator handed to sort
Comparator(a, b, key, dir) ==
  IF dir = "asc" THEN localeCompare(a[key], b[key])
  ELSE localeCompare(b[key], a[key])

\* Array.prototype.sort, which is stable: x goes behind every element that
\* does not compare greater than it
RECURSIVE InsertSorted(_, _, _, _)
InsertSorted(x, sorted, key, dir) ==
  IF sorted = <<>> THEN <<x>>
  ELSE IF Comparator(Head(sorted), x, key, dir) > 0 THEN <<x>> \o sorted
  ELSE <<Head(sorted)>> \o InsertSorted(x, Tail(sorted), key, dir)

RECURSIVE Sort(_, _, _)
Sort(arr, key, dir) ==
  IF arr = <<>> THEN <<>>
  ELSE InsertSorted(arr[Len(arr)], Sort(SubSeq(arr, 1, Len(arr) - 1), key, dir),
                    key, dir)

\* const sortedProjects = [...projects].sort(...): what the FlatList shows
sortedProjects == Sort(items, sortKey, sortDirection)

\* setProjects(data) when the screen's first fetch has been answered
FetchProjects(data) ==
  /\ items = <<>>
  /\ data # <<>>
  /\ items' = data
  /\ UNCHANGED <<sessionVars, shellVars, formVars, viewVars, sortKey, sortDirection>>

\* a sort button is pressed
handleSort(key) ==
  /\ IF sortKey = key
     THEN /\ sortDirection' = (IF sortDirection = "asc" THEN "desc" ELSE "asc")
          /\ UNCHANGED sortKey
     ELSE /\ sortKey' = key
          /\ sortDirection' = "asc"
  /\ UNCHANGED <<sessionVars, shellVars, formVars, viewVars, items>>

ListInit ==
  /\ isAuthenticated = "true" /\ authToken \in Tokens
  /\ userData = Null /\ user = NoUser
  /\ calls = EmptyBag /\ settled = Idle /\ overlap = FALSE
  /\ ShellIdle /\ profile = NoUser
  /\ FormsIdle /\ ListIdle /\ ViewIdle

ListNext ==
  \/ \E data \in Collections : FetchProjects(data)
  \/ \E key \in SortKeys : handleSort(key)

ListSpec == ListInit /\ [][ListNext]_vars

\* C20: for every fetched collection (equal titles allowed), sort-by-title
\* ascending displays the items in lexical order of title, and pressing the
\* same sort control again displays exactly the reverse of that sequence
Reverse(seq) == [i \in 1..Len(seq) |-> seq[Len(seq) + 1 - i]]

TitleOrder == <<"a", "ab", "b">>

PositionOf(t) == CHOOSE i \in 1..Len(TitleOrder) : TitleOrder[i] = t

InTitleOrder(seq) ==
  \A i, j \in 1..Len(seq) :
    i < j => PositionOf(seq[i].title) <= PositionOf(seq[j].title)

C20_Claim ==
  [][/\ (sortKey' = "title" /\ sortDirection' = "asc")
          => InTitleOrder(sortedProjects')
     /\ (sortKey = "title" /\ sortDirection = "asc" /\ items' = items
           /\ sortKey' = "title" /\ sortDirection' = "desc")
          => sortedProjects' = Reverse(sortedProjects)]_vars

\* ==== overlapping session calls ============================================

\* no call is in flight
AtRest == calls = EmptyBag

\* C21: login and logout are not mutually excluded, and a logout that
\* overlaps a login can leave the client, after both have completed, with
\* isAuthenticated true and no authToken stored (and a userData entry left
\* without an authToken); without such an overlap a client at rest that is
\* authenticated has its token
C21_Theorem ==
  (AtRest /\ isAuthenticated = "true" /\ authToken = Null) => overlap

\* both calls have completed after an overlap: authenticated, no token, and
\* the login's userData entry still stored
C21_Witness ==
  /\ AtRest /\ overlap
  /\ isAuthenticated = "true" /\ authToken = Null /\ userData # Null

\* signed out with nothing left in storage
Cleared == isAuthenticated = "false" /\ authToken = Null /\ userData = Null

SessionIsStudent == user # NoUser /\ UserRecord(user).role = "student"

\* C25: after user A has logged out and user B has logged in, the user
\* record the session exposes, and the tabs derived from it, are B's: they
\* do not depend on who was signed in before
C25_Claim ==
  (settled.op = "login" /\ settled.result = "resolved" /\ ~overlap)
    => /\ user \in {NoUser, settled.duser}
       /\ user # NoUser =>
            (SessionIsStudent <=> UserRecord(settled.duser).role = "student")

\* C27: a login that the backend rejects with a non-2xx status, or that
\* fails at network level, rejects, and no step of it (its start, the
\* arrival of the answer, the throw) changes the stored authToken or
\* userData, isAuthenticated or the session user
LoginStarts ==
  /\ \A c \in InFlight : ~InLogin(c)
  /\ \E d \in BagToSet(calls') : InLogin(d)

LoginMoves ==
  \E c \in InFlight :
    /\ InLogin(c) /\ c.pc \in {"li_fetch", "li_json"}
    /\ \A d \in BagToSet(calls') : ~(InLogin(d) /\ d.pc = c.pc)

C27_Theorem ==
  /\ []((settled.op = "login" /\ ~IsOk(settled.status))
          => settled.result = "rejected")
  /\ [][(LoginStarts \/ LoginMoves)
          => UNCHANGED <<authToken, userData, isAuthenticated, user>>]_vars

\* a rejected login has left a stale userData entry, and the session signed
\* out, as they were
C27_Witness ==
  /\ settled.op = "login" /\ settled.result = "rejected" /\ settled.status = 401
  /\ isAuthenticated = "false" /\ authToken = Null /\ userData # Null

\* C26: whenever the session is authenticated as an account whose record
\* carries the student role, the tab layout hides Groups and Projects and
\* shows Tasks, My Group and Our Project, the time before the record has
\* been fetched included
C26_Claim ==
  (isAuthenticated = "true" /\ route # "login" /\ NamesStudent(profile))
    => /\ {"groups", "projects"} \cap tabs = {}
       /\ {"tasks", "my_group", "our_project"} \subseteq tabs

\* ---- detail screens with an edit buffer ---------------------------------
\* ActivityDetails; ProjectDetails and RepositoryDetails hold the same five
\* useState values and run the same fetch, edit, save and render code.

\* a data screen is mounted in a signed-in session, showing v and awaiting r
Mounted(v, r) ==
  /\ isAuthenticated = "true" /\ authToken \in Tokens
  /\ userData = Null /\ user = NoUser
  /\ calls = EmptyBag /\ settled = Idle /\ overlap = FALSE
  /\ ShellIdle /\ profile = NoUser /\ FormsIdle /\ ListIdle
  /\ view = v /\ reqs = r

\* a continuation of the screen sets its state to v and leaves r awaited
Show(v, r) ==
  /\ view' = v /\ reqs' = r
  /\ UNCHANGED <<sessionVars, shellVars, formVars, listVars>>

\* useState(null) of activity and editedActivity
NoActivity == [id |-> 0, title |-> "", description |-> ""]

\* the records the backend can hold for the activity that is open
Activities == {[id |-> 1, title |-> t, description |-> d] : t \in Titles, d \in {"", "a"}}

\* JSON.stringify of an Activity
StringifyActivity(a) ==
  "{\"id\":" \o ToString(a.id) \o ",\"title\":\"" \o a.title
    \o "\",\"description\":\"" \o a.description \o "\"}"

hasChanges(v) ==
  IF v.activity = NoActivity \/ v.editedActivity = NoActivity
  THEN FALSE
  ELSE StringifyActivity(v.activity) # StringifyActivity(v.editedActivity)

\* the render returns the spinner while loading, the error view while error
\* is set, the not-found view without a record, and the form otherwise
FormShown(v) ==
  ~v.loading /\ v.error = Null /\ v.activity # NoActivity /\ v.editedActivity # NoActivity

\* {hasChanges() && <TouchableOpacity onPress={handleSave} disabled={saving}>}
SaveShown(v) == FormShown(v) /\ hasChanges(v)

\* the mount effect has called fetchData for a record the backend holds
DetailInit ==
  \E a \in Activities :
    Mounted([screen |-> "activity", activity |-> NoActivity, editedActivity |-> NoActivity,
             loading |-> TRUE, saving |-> FALSE, error |-> Null],
            {[kind |-> "fetch", data |-> a]})

\* fetchData after its await
FetchDataResponds(status) ==
  \E r \in reqs :
    /\ r.kind = "fetch"
    /\ Show(IF IsOk(status)
            THEN [view EXCEPT !.activity = r.data, !.editedActivity = r.data,
                              !.error = Null, !.loading = FALSE]
            ELSE [view EXCEPT !.error = "Failed to fetch data. Please try again later.", !.loading = FALSE],
            reqs \ {r})

handleFieldChange(field, value) ==
  /\ FormShown(view)
  /\ Show([view EXCEPT !.editedActivity = [@ EXCEPT ![field] = value]], reqs)

\* handleSave up to its await: the PUT carries the buffer's fields, and the
\* backend answers a success with the record as saved
handleSave ==
  /\ SaveShown(view) /\ ~view.saving
  /\ Show([view EXCEPT !.saving = TRUE],
          reqs \cup {[kind |-> "save", data |-> view.editedActivity]})

\* handleSave after its await
SaveResponds(status) ==
  \E r \in reqs :
    /\ r.kind = "save"
    /\ Show(IF IsOk(status)
            THEN [view EXCEPT !.activity = r.data, !.editedActivity = r.data,
                              !.error = Null, !.saving = FALSE]
            ELSE [view EXCEPT !.error = "Failed to save changes. Please try again later.", !.saving = FALSE],
            reqs \ {r})

DetailNext ==
  \/ \E status \in Statuses : FetchDataResponds(status)
  \/ \E t \in Titles : handleFieldChange("title", t)
  \/ \E d \in {"", "a"} : handleFieldChange("description", d)
  \/ handleSave
  \/ \E status \in Statuses : SaveResponds(status)

DetailSpec == DetailInit /\ [][DetailNext]_vars

\* C24: on a detail screen the save control is shown in exactly the states
\* where the edit buffer differs from the last-fetched snapshot: hidden right
\* after a fetch and after a successful save, and still shown after a failed
\* save, which leaves buffer and snapshot as they were
C24_Claim == SaveShown(view) <=> view.editedActivity # view.activity

\* ---- the Activities list screen ----------------------------------------
\* (tabs)/activities.tsx; (tabs)/groups.tsx fetches and refreshes its list
\* with the same code.  A collection response is named by the number of the
\* request it answers; 0 is the initial empty list.
MaxRequests == 3

\* the screen issues a request: the answer the backend will give it is
\* fixed here, `live` is the isMounted variable its closure reads
NewRequest(kind, status) ==
  [kind |-> kind, n |-> view.issued + 1, status |-> status, live |-> TRUE, done |-> FALSE]

\* the effect's cleanup: isMounted = false in the closure of every
\* fetchActivities the effect has started
Cleanup(rs) == {IF r.kind = "fetch" THEN [r EXCEPT !.live = FALSE] ELSE r : r \in rs}

\* the first run of the mount effect has called fetchActivities
ActivitiesInit ==
  \E status \in Statuses :
    Mounted([screen |-> "activities", mounted |-> TRUE, activities |-> 0, error |-> Null,
             loading |-> TRUE, refreshing |-> FALSE, issued |-> 1],
            {[kind |-> "fetch", n |-> 1, status |-> status, live |-> TRUE, done |-> FALSE]})

\* the effect runs again, authenticatedFetch being a new function after a
\* render of AuthProvider: the cleanup, then fetchActivities up to its await
RunEffect(status) ==
  /\ view.mounted /\ view.issued < MaxRequests
  /\ Show([view EXCEPT !.loading = TRUE, !.issued = @ + 1],
          Cleanup(reqs) \cup {NewRequest("fetch", status)})

\* onRefresh up to its await: the pull gesture, the Retry button, or the
\* call at the end of createActivity; the list view is rendered when not
\* loading
onRefresh(status) ==
  /\ view.mounted /\ ~view.loading /\ view.issued < MaxRequests
  /\ Show([view EXCEPT !.refreshing = TRUE, !.issued = @ + 1],
          reqs \cup {NewRequest("refresh", status)})

\* fetchActivities after its await: every setter is under if (isMounted)
FetchActivitiesResponds ==
  \E r \in reqs :
    /\ r.kind = "fetch" /\ ~r.done
    /\ Show(IF ~r.live THEN view
            ELSE IF IsOk(r.status)
            THEN [view EXCEPT !.activities = r.n, !.error = Null, !.loading = FALSE]
            ELSE [view EXCEPT !.error = "HTTP error! Status: " \o ToString(r.status),
                              !.loading = FALSE],
            (reqs \ {r}) \cup {[r EXCEPT !.done = TRUE]})

\* onRefresh's if (response.ok), for the request r answered in view state v
RefreshAppliesIfNewest(r, v) == IsOk(r.status) /\ r.n = v.issued

RefreshApplies(r, v) == IsOk(r.status)

\* onRefresh after its await
RefreshResponds ==
  \E r \in reqs :
    /\ r.kind = "refresh" /\ ~r.done
    /\ Show(IF RefreshApplies(r, view)
            THEN [view EXCEPT !.activities = r.n, !.error = Null, !.refreshing = FALSE]
            ELSE [view EXCEPT !.refreshing = FALSE],
            (reqs \ {r}) \cup {[r EXCEPT !.done = TRUE]})

\* the screen leaves the tree: the effect's cleanup runs
Unmount ==
  /\ view.mounted
  /\ Show([view EXCEPT !.mounted = FALSE], Cleanup(reqs))

ActivitiesNext ==
  \/ \E status \in Statuses : RunEffect(status)
  \/ \E status \in Statuses : onRefresh(status)
  \/ FetchActivitiesResponds
  \/ RefreshResponds
  \/ Unmount

ActivitiesSpec == ActivitiesInit /\ [][ActivitiesNext]_vars

\* C23: on the Activities and Groups screens no response that arrives after
\* the screen has unmounted updates the screen's list, error, loading or
\* refreshing state, whether its request was the mount-time fetch or a
\* pull-to-refresh
C23_Claim ==
  [][~view.mounted
       => /\ view'.activities = view.activities /\ view'.error = view.error
          /\ view'.loading = view.loading /\ view'.refreshing = view.refreshing]_vars

\* C29 as stated: once overlapping fetches of the collection have all
\* completed, the displayed list is the response of the request issued last
AllAnswered == \A r \in reqs : r.done /\ IsOk(r.status)

C29_Original ==
  (view.mounted /\ Cardinality(reqs) >= 2 /\ AllAnswered)
    => view.activities = view.issued

\* C29, amended: the screen does not order its responses.  Each answer is
\* applied when it arrives: a successful pull-to-refresh answer always
\* replaces the list, a successful mount-fetch answer replaces it while its
\* closure is live, and nothing else changes the list; so the list shown
\* after overlapping requests is that of the answer applied last, which may
\* belong to an earlier request
Completes(r) == ~r.done /\ [r EXCEPT !.done = TRUE] \in reqs'

C29_Theorem ==
  [][IF \E r \in reqs : Completes(r)
     THEN \A r \in reqs :
            Completes(r)
              => view'.activities =
                   IF IsOk(r.status) /\ (r.kind = "refresh" \/ r.live)
                   THEN r.n ELSE view.activities
     ELSE view'.activities = view.activities]_vars

\* a refresh issued before the latest request was answered after it: every
\* request has succeeded and the list shown is the older response
C29_Witness ==
  /\ view.mounted /\ AllAnswered
  /\ view.issued = 3 /\ view.activities = 2
  /\ \E r \in reqs : r.n = 2 /\ r.kind = "refresh"

\* ---- the Tasks screen ------------------------------------------------------
\* (tabs)/tasks.tsx.  A run of loadTasks is named by its number, and so are
\* the two collections its fetches return; 0 is the initial empty list.
MaxLoads == 2

TaskTypes == {"documentation", "development"}

\* the promise fetchTasks(type) returned to the run l of loadTasks
fetchTasks(l, type) ==
  IF type \notin l.answered THEN "pending"
  ELSE IF IsOk(l.status[type]) THEN "resolved" ELSE "rejected"

\* Promise.all([a, b]): rejected with the first rejection, resolved once
\* both are
PromiseAllFirstOnly(a, b) == a

PromiseAll(a, b) ==
  IF "rejected" \in {a, b} THEN "rejected"
  ELSE IF a = "resolved" /\ b = "resolved" THEN "resolved" ELSE "pending"

\* a run of loadTasks awaiting Promise.all; the answers its two requests
\* will get are fixed here
NewLoad(n, status) == [n |-> n, status |-> status, answered |-> {}, ended |-> FALSE]

\* the mount effect has called loadTasks
TasksInit ==
  \E status \in [TaskTypes -> Statuses] :
    Mounted([screen |-> "tasks", documentationTasks |-> 0, developmentTasks |-> 0,
             loading |-> TRUE, error |-> Null, issued |-> 1],
            {NewLoad(1, status)})

\* loadTasks up to its await: from onRefresh, from Retry, or after a task
\* has been created or updated
loadTasks(status) ==
  /\ view.issued < MaxLoads
  /\ Show([view EXCEPT !.loading = TRUE, !.error = Null, !.issued = @ + 1],
          reqs \cup {NewLoad(view.issued + 1, status)})

\* one of the two requests of a run is answered; when that settles the
\* Promise.all, loadTasks continues after its await to its end
FetchTasksResponds(type) ==
  \E l \in reqs :
    /\ type \notin l.answered
    /\ LET m == [l EXCEPT !.answered = @ \cup {type}]
           all == PromiseAll(fetchTasks(m, "documentation"), fetchTasks(m, "development"))
       IN  IF l.ended \/ all = "pending"
           THEN Show(view, (reqs \ {l}) \cup {m})
           ELSE Show(IF all = "resolved"
                     THEN [view EXCEPT !.documentationTasks = l.n,
                                       !.developmentTasks = l.n, !.loading = FALSE]
                     ELSE [view EXCEPT
                             !.error = "Failed to fetch tasks. Please check your connection and try again.",
                             !.loading = FALSE],
                     (reqs \ {l}) \cup {[m EXCEPT !.ended = TRUE]})

TasksNext ==
  \/ \E status \in [TaskTypes -> Statuses] : loadTasks(status)
  \/ \E type \in TaskTypes : FetchTasksResponds(type)

TasksSpec == TasksInit /\ [][TasksNext]_vars

\* C28: loadTasks updates the documentation and development lists together
\* or not at all: the two lists always come from the same run; a run one of
\* whose fetches fails ends with both lists as they were and the error set,
\* a run both of whose fetches succeed ends by setting both; the lists
\* change at no other step; and loading is false when a run ends
Ends(l) == ~l.ended /\ \E m \in reqs' : m.n = l.n /\ m.ended

Fails(l) == \E type \in TaskTypes : ~IsOk(l.status[type])

TaskLists(v) == <<v.documentationTasks, v.developmentTasks>>

C28_Theorem ==
  /\ [](view.documentationTasks = view.developmentTasks)
  /\ [][/\ \A l \in reqs :
              Ends(l) => (/\ view'.loading = FALSE
                          /\ IF Fails(l)
                             THEN /\ TaskLists(view') = TaskLists(view)
                                  /\ view'.error # Null
                             ELSE TaskLists(view') = <<l.n, l.n>>)
        /\ (TaskLists(view') # TaskLists(view))
              => (\E l \in reqs : Ends(l) /\ ~Fails(l))]_vars

\* a second run has ended on a failed fetch after its other fetch had
\* succeeded: the lists are still those of the first run, the error is set
C28_Witness ==
  /\ TaskLists(view) = <<1, 1>> /\ view.error # Null /\ ~view.loading
  /\ \E l \in reqs : /\ l.n = 2 /\ l.ended /\ l.answered = TaskTypes
                     /\ IsOk(l.status["documentation"])
                     /\ ~IsOk(l.status["development"])

\* ---- the Projects list screen ----------------------------------------------
\* Projects (src/unnamed/part_002).  Numbers are held in hundredths: the
\* decimal 0.5 is 50 and the number 50 is 5000.
MaxProjects == 2

\* a project whose progress the backend sends as null
NoProgress == -1

\* GET /api/projects: the projects with the progress of each, a decimal in 0..1
ProjectResponses ==
  UNION {{[i \in 1..n |-> [id |-> i, progress |-> p[i]]] :
            p \in [1..n -> {NoProgress, 0, 50, 100}]} : n \in 0..MaxProjects}

\* project.progress || 0
OrZero(p) == IF p = NoProgress THEN 0 ELSE p

\* Math.round(project.progress * 100), null * 100 being 0
RoundPercent(p) == IF p = NoProgress THEN 0 ELSE ((p * 100 + 50) \div 100) * 100

\* data.map(...) in fetchProjects
FetchProcessed(data) ==
  [i \in 1..Len(data) |->
     [id |-> data[i].id, progress |-> OrZero(data[i].progress),
      progressPercentage |-> OrZero(data[i].progress)]]

\* data.map(...) in onRefresh
RefreshProcessed(data) ==
  [i \in 1..Len(data) |-> [id |-> data[i].id, progress |-> RoundPercent(data[i].progress)]]

\* the mount effect has called fetchProjects
ProjectsInit ==
  \E data \in ProjectResponses, status \in Statuses :
    Mounted([screen |-> "projects", projects |-> <<>>, loading |-> TRUE,
             refreshing |-> FALSE, error |-> Null],
            {[kind |-> "fetch", status |-> status, data |-> data]})

\* fetchProjects after its await
ProjectsFetchResponds ==
  \E r \in reqs :
    /\ r.kind = "fetch"
    /\ Show(IF IsOk(r.status)
            THEN [view EXCEPT !.projects = FetchProcessed(r.data), !.error = Null,
                              !.loading = FALSE]
            ELSE [view EXCEPT
                    !.error = "Failed to fetch projects. Please check your connection and API endpoint.",
                    !.loading = FALSE],
            reqs \ {r})

\* onRefresh up to its await; the RefreshControl is rendered with the list
ProjectsRefresh(data, status) ==
  /\ ~view.loading /\ ~view.refreshing
  /\ Show([view EXCEPT !.refreshing = TRUE],
          reqs \cup {[kind |-> "refresh", status |-> status, data |-> data]})

\* onRefresh after its await
ProjectsRefreshResponds ==
  \E r \in reqs :
    /\ r.kind = "refresh"
    /\ Show(IF IsOk(r.status)
            THEN [view EXCEPT !.projects = RefreshProcessed(r.data), !.error = Null,
                              !.refreshing = FALSE]
            ELSE [view EXCEPT !.refreshing = FALSE],
            reqs \ {r})

ProjectsNext ==
  \/ ProjectsFetchResponds
  \/ \E data \in ProjectResponses, status \in Statuses : ProjectsRefresh(data, status)
  \/ ProjectsRefreshResponds

ProjectsSpec == ProjectsInit /\ [][ProjectsNext]_vars

\* C30: on the Projects screen pull-to-refresh is consistent with the
\* mount-time fetch: when the list shown is what the fetch makes of a
\* backend response, a successful refresh answered with the same response
\* leaves the list, the progress of every project included, unchanged
C30_Claim ==
  [][\A r \in reqs \ reqs' :
       (r.kind = "refresh" /\ IsOk(r.status) /\ view.projects = FetchProcessed(r.data))
         => view'.projects = view.projects]_vars

====
